---- MODULE Spec2Model ----
(***************************************************************************)
(* State-machine model of src/test-final.ino: the ESP32 smart-chair        *)
(* firmware.  setup() runs once, then loop() runs forever: a sweep of 12   *)
(* force-sensitive resistors through a 16-channel analog multiplexer, an   *)
(* MPU6050 and a DHT22 reading, an HTTP GET of the combined reading, and   *)
(* the update of the two status LEDs.                                      *)
(*                                                                         *)
(* The program is one sequential thread; pc is its position.  Every        *)
(* digitalWrite of a select line or of a status LED is a step of its own.  *)
(***************************************************************************)
EXTENDS Integers, Sequences, FiniteSets

VARIABLES
    pc,             \* position of the single thread of control
    caller,         \* who called connectToWiFi: "setup" or "send"
    sel,            \* levels of the select lines S0..S3, indexed 0..3
    channel,        \* parameter of selectMuxChannel
    green, red,     \* levels of GREEN_LED and RED_LED
    builtin,        \* level of BUILTIN_LED
    i,              \* loop(): the for-loop index
    activeSensors,  \* loop(): int activeSensors
    fsrData,        \* loop(): String fsrData, as its sequence of key=value fields
    mpuEvent,       \* loop(): a, g, temp filled by mpu.getEvent
    humidity,       \* loop(): float humidity
    dhtTemp,        \* loop(): float dhtTemp
    postData,       \* loop(): String postData (<<>> before it is built)
    attempts,       \* connectToWiFi(): int attempts
    wlStatus,       \* value returned by the latest WiFi.status() call
    pressed,        \* environment: the channels that carry a load
    settled,        \* history: the settle delay elapsed after the last select-line write
    written,        \* history: select lines written by the current selectMuxChannel call
    sampled,        \* history: multiplexer channel routed to MUX_SIG at each analogRead
    gets,           \* history: number of http.GET() calls of this iteration
    getData,        \* history: query data carried by this iteration's GET
    sendStatus,     \* history: WiFi.status() as seen by sendDataToGoogleSheets
    log,            \* history: the steps of this iteration, in order
    ledsWritten,    \* history: status LEDs written since power-on
    iter            \* history: number of the running loop() iteration

vars == <<pc, caller, sel, channel, green, red, builtin, i, activeSensors,
          fsrData, mpuEvent, humidity, dhtTemp, postData, attempts, wlStatus,
          pressed, settled, written, sampled, gets, getData, sendStatus, log,
          ledsWritten, iter>>

(***************************************************************************)
(* Program constants                                                       *)
(***************************************************************************)
PRESSURE_THRESHOLD == 100
NumChannels == 12
AlertCount == 4
MaxAttempts == 20

(***************************************************************************)
(* Bounds of the model                                                     *)
(***************************************************************************)
MaxIter == 2

Levels == {"LOW", "HIGH"}
Lines == 0..3
MuxInputs == 0..15      \* the 16 inputs of the multiplexer
WlStatuses == {"WL_CONNECTED", "WL_DISCONNECTED"}

(***************************************************************************)
(* Pure helpers                                                            *)
(***************************************************************************)
RECURSIVE Pow2(_)
Pow2(n) == IF n = 0 THEN 1 ELSE 2 * Pow2(n - 1)

\* bitRead with the shift off by one: (value) >> (bit + 1)
bitReadShifted(value, bit) == (value \div Pow2(bit + 1)) % 2

\* Arduino bitRead(value, bit): ((value) >> (bit)) & 0x01
bitRead(value, bit) == (value \div Pow2(bit)) % 2

\* digitalWrite(pin, val): any non-zero val drives the pin HIGH
PinLevel(val) == IF val = 0 THEN "LOW" ELSE "HIGH"

\* !digitalRead(pin)
Toggle(level) == IF level = "HIGH" THEN "LOW" ELSE "HIGH"

\* The 16:1 multiplexer: the input routed to MUX_SIG by the select lines.
MuxChannel(s) ==
    (IF s[0] = "HIGH" THEN 1 ELSE 0) + (IF s[1] = "HIGH" THEN 2 ELSE 0)
  + (IF s[2] = "HIGH" THEN 4 ELSE 0) + (IF s[3] = "HIGH" THEN 8 ELSE 0)

\* Environment: the ADC value on multiplexer input c when the channels in p
\* carry a load.  A loaded channel reads above the threshold, a free one at
\* or below it, and the value tells the channel.
AnalogLevel(p, c) ==
    IF c \in p THEN PRESSURE_THRESHOLD + 1 + c ELSE PRESSURE_THRESHOLD - c

\* Environment: the load patterns a sweep can meet.
PressedSets ==
    {a..b : a \in 0..(NumChannels - 1), b \in -1..(NumChannels - 1)}
    \cup {{c \in 0..(NumChannels - 1) : c % 2 = 0}, {1, 3, 5, 7, 9},
          {0, 2, 5, 11}, {1, 4, 6, 8, 10}}

\* the comparison made inclusive: fsrValue >= PRESSURE_THRESHOLD
IsActiveInclusive(fsrValue) == fsrValue >= PRESSURE_THRESHOLD

\* loop() line 148: fsrValue > PRESSURE_THRESHOLD
IsActive(fsrValue) == fsrValue > PRESSURE_THRESHOLD

\* the sweep one channel short: i < 11
ForCondShort(idx) == idx < NumChannels - 1

\* loop() line 143: i < 12
ForCond(idx) == idx < NumChannels

\* the index advanced by two
NextIndexSkip(idx) == idx + 2

\* loop() line 143: i++
NextIndex(idx) == idx + 1

\* the alert comparison made inclusive: activeSensors >= 4
GreenLevelInclusive(a) == IF a >= AlertCount THEN "HIGH" ELSE "LOW"

\* loop() line 196: activeSensors > 4 ? HIGH : LOW
GreenLevel(a) == IF a > AlertCount THEN "HIGH" ELSE "LOW"

\* line 196 copied to line 197 without swapping the levels
RedLevelCopied(a) == IF a > AlertCount THEN "HIGH" ELSE "LOW"

\* loop() line 197: activeSensors > 4 ? LOW : HIGH
RedLevel(a) == IF a > AlertCount THEN "LOW" ELSE "HIGH"

\* connectToWiFi() line 50: WiFi.status() != WL_CONNECTED && attempts < 20
WhileCond(st, a) == st # "WL_CONNECTED" /\ a < MaxAttempts

\* the increment forgotten
NextAttemptsStuck(a) == a

\* connectToWiFi() line 54: attempts++
NextAttempts(a) == a + 1

\* a retry of the upload once the reconnection succeeded
WifiReturnRetry(c, st) ==
    IF c = "setup" THEN "mpuBegin"
    ELSE IF st = "WL_CONNECTED" THEN "httpGet" ELSE "ledGreen"

\* where connectToWiFi returns to: setup() line 117, or through the end of
\* sendDataToGoogleSheets to loop() line 196
WifiReturn(c, st) == IF c = "setup" THEN "mpuBegin" ELSE "ledGreen"

\* loop() lines 178-188: the query string, as its fields
Serialize(fsr, active, mpu, hum, temp) ==
    [fsr |-> fsr, active |-> active, mpu |-> mpu,
     dhtHumidity |-> hum, dhtTemp |-> temp]

(***************************************************************************)
(* Initial state: power-on, before setup().  The output latches and the    *)
(* select lines hold whatever the reset left there.                        *)
(***************************************************************************)
Locals ==
    /\ i = 0
    /\ activeSensors = 0
    /\ fsrData = <<>>
    /\ mpuEvent = "none"
    /\ humidity = "none"
    /\ dhtTemp = "none"
    /\ postData = <<>>
    /\ sampled = <<>>
    /\ gets = 0
    /\ getData = <<>>
    /\ sendStatus = "none"
    /\ log = <<>>

Init ==
    /\ pc = "setup"
    /\ caller = "setup"
    /\ sel \in [Lines -> Levels]
    /\ channel = 0
    /\ green \in Levels
    /\ red \in Levels
    /\ builtin \in Levels
    /\ Locals
    /\ attempts = 0
    /\ wlStatus = "WL_DISCONNECTED"
    /\ pressed = {}
    /\ settled = FALSE
    /\ written = {}
    /\ ledsWritten = {}
    /\ iter = 0

(***************************************************************************)
(* selectMuxChannel                                                        *)
(***************************************************************************)
WriteSelect(line, here, next) ==
    /\ pc = here
    /\ sel' = [sel EXCEPT ![line] = PinLevel(bitRead(channel, line))]
    /\ settled' = FALSE
    /\ written' = written \cup {line}
    /\ pc' = next
    /\ UNCHANGED <<caller, channel, green, red, builtin, i, activeSensors,
                   fsrData, mpuEvent, humidity, dhtTemp, postData, attempts,
                   wlStatus, pressed, sampled, gets, getData, sendStatus, log,
                   ledsWritten, iter>>

WriteS0 == WriteSelect(0, "selS0", "selS1")
WriteS1 == WriteSelect(1, "selS1", "selS2")
WriteS2 == WriteSelect(2, "selS2", "selS3")
WriteS3 == WriteSelect(3, "selS3", "settle")

(***************************************************************************)
(* connectToWiFi                                                           *)
(***************************************************************************)
WifiBegin ==
    /\ pc = "wifiBegin"
    /\ attempts' = 0
    /\ pc' = "wifiWhile"
    /\ UNCHANGED <<caller, sel, channel, green, red, builtin, i, activeSensors,
                   fsrData, mpuEvent, humidity, dhtTemp, postData, wlStatus,
                   pressed, settled, written, sampled, gets, getData,
                   sendStatus, log, ledsWritten, iter>>

WifiWhile ==
    /\ pc = "wifiWhile"
    /\ \E st \in WlStatuses :
        /\ wlStatus' = st
        /\ IF WhileCond(st, attempts)
           THEN /\ builtin' = Toggle(builtin)
                /\ attempts' = NextAttempts(attempts)
                /\ pc' = "wifiWhile"
           ELSE /\ pc' = "wifiIf"
                /\ UNCHANGED <<builtin, attempts>>
    /\ UNCHANGED <<caller, sel, channel, green, red, i, activeSensors, fsrData,
                   mpuEvent, humidity, dhtTemp, postData, pressed, settled,
                   written, sampled, gets, getData, sendStatus, ledsWritten,
                   iter, log>>

WifiIf ==
    /\ pc = "wifiIf"
    /\ \E st \in WlStatuses :
        /\ wlStatus' = st
        /\ builtin' = IF st = "WL_CONNECTED" THEN "HIGH" ELSE builtin
        /\ pc' = WifiReturn(caller, st)
    /\ attempts' = 0
    /\ log' = IF caller = "send" THEN Append(log, "ret") ELSE log
    /\ UNCHANGED <<caller, sel, channel, green, red, i, activeSensors, fsrData,
                   mpuEvent, humidity, dhtTemp, postData, pressed,
                   settled, written, sampled, gets, getData, sendStatus,
                   ledsWritten, iter>>

(***************************************************************************)
(* setup                                                                   *)
(***************************************************************************)
SetupPins ==
    /\ pc = "setup"
    /\ pc' = "setupRed"
    /\ UNCHANGED <<caller, sel, channel, green, red, builtin, i, activeSensors,
                   fsrData, mpuEvent, humidity, dhtTemp, postData, attempts,
                   wlStatus, pressed, settled, written, sampled, gets, getData,
                   sendStatus, log, ledsWritten, iter>>

SetupRed ==
    /\ pc = "setupRed"
    /\ red' = "HIGH"
    /\ ledsWritten' = ledsWritten \cup {"RED_LED"}
    /\ pc' = "setupGreen"
    /\ UNCHANGED <<caller, sel, channel, green, builtin, i, activeSensors,
                   fsrData, mpuEvent, humidity, dhtTemp, postData, attempts,
                   wlStatus, pressed, settled, written, sampled, gets, getData,
                   sendStatus, log, iter>>

SetupGreen ==
    /\ pc = "setupGreen"
    /\ green' = "LOW"
    /\ ledsWritten' = ledsWritten \cup {"GREEN_LED"}
    /\ caller' = "setup"
    /\ pc' = "wifiBegin"
    /\ UNCHANGED <<sel, channel, red, builtin, i, activeSensors, fsrData,
                   mpuEvent, humidity, dhtTemp, postData, attempts, wlStatus,
                   pressed, settled, written, sampled, gets, getData,
                   sendStatus, log, iter>>

\* Wire.begin and mpu.begin(): a missing MPU6050 parks the program in
\* while (1) delay(10), position "halt", which has no successor.
MpuBegin ==
    /\ pc = "mpuBegin"
    /\ \E found \in BOOLEAN : pc' = IF found THEN "setupEnd" ELSE "halt"
    /\ UNCHANGED <<caller, sel, channel, green, red, builtin, i, activeSensors,
                   fsrData, mpuEvent, humidity, dhtTemp, postData, attempts,
                   wlStatus, pressed, settled, written, sampled, gets, getData,
                   sendStatus, log, ledsWritten, iter>>

SetupEnd ==
    /\ pc = "setupEnd"
    /\ pc' = "loop"
    /\ UNCHANGED <<caller, sel, channel, green, red, builtin, i, activeSensors,
                   fsrData, mpuEvent, humidity, dhtTemp, postData, attempts,
                   wlStatus, pressed, settled, written, sampled, gets, getData,
                   sendStatus, log, ledsWritten, iter>>

(***************************************************************************)
(* loop                                                                    *)
(***************************************************************************)
\* Entry of loop(): the locals of lines 140-143 are initialised.  The load
\* on the seat is taken to be steady during one sweep.
LoopBegin ==
    /\ pc = "loop"
    /\ iter < MaxIter
    /\ iter' = iter + 1
    /\ fsrData' = <<>>
    /\ activeSensors' = 0
    /\ i' = 0
    /\ \E p \in PressedSets : pressed' = p
    /\ pc' = "forTest"
    /\ UNCHANGED <<caller, sel, channel, green, red, builtin, mpuEvent,
                   humidity, dhtTemp, postData, attempts, wlStatus, settled,
                   written, sampled, gets, getData, sendStatus, log,
                   ledsWritten>>

ForTest ==
    /\ pc = "forTest"
    /\ IF ForCond(i)
       THEN /\ channel' = i % 256
            /\ written' = {}
            /\ pc' = "selS0"
            /\ log' = log
       ELSE /\ pc' = "mpuRead"
            /\ log' = Append(log, "sweep")
            /\ UNCHANGED <<channel, written>>
    /\ UNCHANGED <<caller, sel, green, red, builtin, i, activeSensors, fsrData,
                   mpuEvent, humidity, dhtTemp, postData, attempts, wlStatus,
                   pressed, settled, sampled, gets, getData, sendStatus,
                   ledsWritten, iter>>

\* the settle delay left out
SettleOmitted ==
    /\ pc = "settle"
    /\ pc' = "analogRead"
    /\ UNCHANGED <<caller, sel, channel, green, red, builtin, i, activeSensors,
                   fsrData, mpuEvent, humidity, dhtTemp, postData, attempts,
                   wlStatus, pressed, settled, written, sampled, gets, getData,
                   sendStatus, log, ledsWritten, iter>>

Settle ==
    /\ pc = "settle"
    /\ settled' = TRUE
    /\ pc' = "analogRead"
    /\ UNCHANGED <<caller, sel, channel, green, red, builtin, i, activeSensors,
                   fsrData, mpuEvent, humidity, dhtTemp, postData, attempts,
                   wlStatus, pressed, written, sampled, gets, getData,
                   sendStatus, log, ledsWritten, iter>>

\* Lines 146-160: one sample, the count, the field appended to fsrData, i++.
AnalogRead ==
    /\ pc = "analogRead"
    /\ LET fsrValue == AnalogLevel(pressed, MuxChannel(sel)) IN
        /\ activeSensors' = IF IsActive(fsrValue) THEN activeSensors + 1
                                                  ELSE activeSensors
        /\ fsrData' = Append(fsrData, [key |-> i, val |-> fsrValue,
                                       amp |-> (i < NumChannels - 1)])
    /\ sampled' = Append(sampled, MuxChannel(sel))
    /\ i' = NextIndex(i)
    /\ pc' = "forTest"
    /\ UNCHANGED <<caller, sel, channel, green, red, builtin, mpuEvent,
                   humidity, dhtTemp, postData, attempts, wlStatus, pressed,
                   settled, written, gets, getData, sendStatus, log,
                   ledsWritten, iter>>

MpuRead ==
    /\ pc = "mpuRead"
    /\ mpuEvent' = "event"
    /\ log' = Append(log, "mpu")
    /\ pc' = "dhtRead"
    /\ UNCHANGED <<caller, sel, channel, green, red, builtin, i, activeSensors,
                   fsrData, humidity, dhtTemp, postData, attempts, wlStatus,
                   pressed, settled, written, sampled, gets, getData,
                   sendStatus, ledsWritten, iter>>

\* Lines 168-175: either read failing (NaN) replaces both by -1.
DhtRead ==
    /\ pc = "dhtRead"
    /\ \E h \in {"nan", "value"}, t \in {"nan", "value"} :
        IF h = "nan" \/ t = "nan"
        THEN humidity' = "-1" /\ dhtTemp' = "-1"
        ELSE humidity' = h /\ dhtTemp' = t
    /\ log' = Append(log, "dht")
    /\ pc' = "build"
    /\ UNCHANGED <<caller, sel, channel, green, red, builtin, i, activeSensors,
                   fsrData, mpuEvent, postData, attempts, wlStatus, pressed,
                   settled, written, sampled, gets, getData, sendStatus,
                   ledsWritten, iter>>

\* the reading built but the call of sendDataToGoogleSheets left out
BuildNoSend ==
    /\ pc = "build"
    /\ postData' = <<Serialize(fsrData, activeSensors, mpuEvent, humidity,
                               dhtTemp)>>
    /\ pc' = "ledGreen"
    /\ UNCHANGED <<caller, sel, channel, green, red, builtin, i, activeSensors,
                   fsrData, mpuEvent, humidity, dhtTemp, attempts, wlStatus,
                   pressed, settled, written, sampled, gets, getData,
                   sendStatus, log, ledsWritten, iter>>

Build ==
    /\ pc = "build"
    /\ postData' = <<Serialize(fsrData, activeSensors, mpuEvent, humidity,
                               dhtTemp)>>
    /\ pc' = "send"
    /\ UNCHANGED <<caller, sel, channel, green, red, builtin, i, activeSensors,
                   fsrData, mpuEvent, humidity, dhtTemp, attempts, wlStatus,
                   pressed, settled, written, sampled, gets, getData,
                   sendStatus, log, ledsWritten, iter>>

\* sendDataToGoogleSheets line 70
Send ==
    /\ pc = "send"
    /\ \E st \in WlStatuses :
        /\ wlStatus' = st
        /\ sendStatus' = st
        /\ IF st = "WL_CONNECTED"
           THEN pc' = "httpGet" /\ caller' = caller
           ELSE pc' = "wifiBegin" /\ caller' = "send"
    /\ log' = Append(log, "send")
    /\ UNCHANGED <<sel, channel, green, red, builtin, i, activeSensors, fsrData,
                   mpuEvent, humidity, dhtTemp, postData, attempts, pressed,
                   settled, written, sampled, gets, getData, ledsWritten, iter>>

\* sendDataToGoogleSheets lines 71-90: the response is only logged
HttpGet ==
    /\ pc = "httpGet"
    /\ gets' = gets + 1
    /\ getData' = postData
    /\ log' = Append(log, "ret")
    /\ pc' = "ledGreen"
    /\ UNCHANGED <<caller, sel, channel, green, red, builtin, i, activeSensors,
                   fsrData, mpuEvent, humidity, dhtTemp, postData, attempts,
                   wlStatus, pressed, settled, written, sampled, sendStatus,
                   ledsWritten, iter>>

LedGreen ==
    /\ pc = "ledGreen"
    /\ green' = GreenLevel(activeSensors)
    /\ ledsWritten' = ledsWritten \cup {"GREEN_LED"}
    /\ log' = Append(log, "green")
    /\ pc' = "ledRed"
    /\ UNCHANGED <<caller, sel, channel, red, builtin, i, activeSensors,
                   fsrData, mpuEvent, humidity, dhtTemp, postData, attempts,
                   wlStatus, pressed, settled, written, sampled, gets, getData,
                   sendStatus, iter>>

LedRed ==
    /\ pc = "ledRed"
    /\ red' = RedLevel(activeSensors)
    /\ ledsWritten' = ledsWritten \cup {"RED_LED"}
    /\ log' = Append(log, "red")
    /\ pc' = "loopDelay"
    /\ UNCHANGED <<caller, sel, channel, green, builtin, i, activeSensors,
                   fsrData, mpuEvent, humidity, dhtTemp, postData, attempts,
                   wlStatus, pressed, settled, written, sampled, gets, getData,
                   sendStatus, iter>>

\* Lines 199-200: delay(500) and return; the locals of loop() die.
LoopDelay ==
    /\ pc = "loopDelay"
    /\ pc' = "loop"
    /\ i' = 0
    /\ activeSensors' = 0
    /\ fsrData' = <<>>
    /\ mpuEvent' = "none"
    /\ humidity' = "none"
    /\ dhtTemp' = "none"
    /\ postData' = <<>>
    /\ sampled' = <<>>
    /\ gets' = 0
    /\ getData' = <<>>
    /\ sendStatus' = "none"
    /\ log' = <<>>
    /\ pressed' = {}
    /\ UNCHANGED <<caller, sel, channel, green, red, builtin, attempts,
                   wlStatus, settled, written, ledsWritten, iter>>

Next ==
    \/ SetupPins \/ SetupRed \/ SetupGreen
    \/ WifiBegin \/ WifiWhile \/ WifiIf
    \/ MpuBegin \/ SetupEnd
    \/ LoopBegin \/ ForTest
    \/ WriteS0 \/ WriteS1 \/ WriteS2 \/ WriteS3
    \/ Settle \/ AnalogRead
    \/ MpuRead \/ DhtRead \/ Build
    \/ Send \/ HttpGet
    \/ LedGreen \/ LedRed \/ LoopDelay

Spec == Init /\ [][Next]_vars

\* The processor keeps executing and every library call returns.
FairSpec == Spec /\ WF_vars(Next)

(***************************************************************************)
(* selectMuxChannel on its own: any byte 0..15, any previous line levels.  *)
(***************************************************************************)
SelInit ==
    /\ pc = "selS0"
    /\ caller = "setup"
    /\ sel \in [Lines -> Levels]
    /\ channel \in MuxInputs
    /\ green = "LOW"
    /\ red = "HIGH"
    /\ builtin = "LOW"
    /\ Locals
    /\ attempts = 0
    /\ wlStatus = "WL_DISCONNECTED"
    /\ pressed = {}
    /\ settled = FALSE
    /\ written = {}
    /\ ledsWritten = {"GREEN_LED", "RED_LED"}
    /\ iter = 0

SelNext == WriteS0 \/ WriteS1 \/ WriteS2 \/ WriteS3

SelSpec == SelInit /\ [][SelNext]_vars

(***************************************************************************)
(* Properties                                                              *)
(***************************************************************************)
TypeOK ==
    /\ sel \in [Lines -> Levels]
    /\ green \in Levels /\ red \in Levels /\ builtin \in Levels
    /\ channel \in 0..255
    /\ i \in 0..NumChannels
    /\ activeSensors \in 0..NumChannels
    /\ attempts \in 0..MaxAttempts
    /\ wlStatus \in WlStatuses
    /\ gets \in 0..1
    /\ iter \in 0..MaxIter

SweepPcs == {"forTest", "selS0", "selS1", "selS2", "selS3", "settle",
             "analogRead"}
WifiPcs == {"wifiBegin", "wifiWhile", "wifiIf"}
ExternalPcs == {"mpuRead", "dhtRead", "build", "send", "httpGet"}
BothLeds == {"GREEN_LED", "RED_LED"}
InLog(e) == \E k \in 1..Len(log) : log[k] = e
Ascending(n) == [k \in 1..n |-> k - 1]
ActiveCount(fsr) ==
    Cardinality({k \in 1..Len(fsr) : fsr[k].val > PRESSURE_THRESHOLD})

\* C1 (as stated): once setup() has written both status LEDs, GREEN_LED and
\* RED_LED are never both HIGH and never both LOW, in any state, the state
\* between the two LED writes of an iteration included.
C1_Original == ledsWritten = BothLeds => green # red

\* C1 (amended): once setup() has written both status LEDs, GREEN_LED and
\* RED_LED differ in every state except the one between the two LED writes
\* of an iteration; there they are equal only when RED_LED is about to be
\* changed by the second write.
C1_LedsExclusive ==
    ledsWritten = BothLeds =>
        /\ pc # "ledRed" => green # red
        /\ pc = "ledRed" /\ green = red => red # RedLevel(activeSensors)

C1_Witness == pc = "loopDelay" /\ iter = 2 /\ green = "HIGH" /\ red = "LOW"

\* C2 (as stated): the status LEDs of an iteration are updated before that
\* iteration calls sendDataToGoogleSheets.
C2_Original == pc = "send" => InLog("green") /\ InLog("red")

\* C2 (amended): every iteration runs sweep, MPU6050 read, DHT22 read,
\* uplink call, uplink return, GREEN_LED write, RED_LED write, in that
\* order: the LEDs are updated after sendDataToGoogleSheets has returned.
C2_Order ==
    /\ pc = "send" => log = <<"sweep", "mpu", "dht">>
    /\ pc = "ledGreen" => log = <<"sweep", "mpu", "dht", "send", "ret">>
    /\ pc = "loopDelay" =>
          log = <<"sweep", "mpu", "dht", "send", "ret", "green", "red">>

C2_Witness == pc = "loopDelay" /\ gets = 1 /\ Len(log) = 7

\* C3: whenever a sample is about to be taken for channel i, all four
\* select lines have been written by selectMuxChannel(i), the settle delay
\* has elapsed since the last select-line write, and the multiplexer routes
\* channel i.
C3_SelectBeforeSample ==
    pc = "analogRead" =>
        /\ settled
        /\ written = Lines
        /\ channel = i
        /\ MuxChannel(sel) = i

C3_Witness == pc = "analogRead" /\ i = 9 /\ settled /\ iter = 2

\* C4: activeSensors is the number of samples of the current sweep that are
\* strictly greater than PRESSURE_THRESHOLD, at every point of the sweep
\* and at its end, in every iteration.
C4_ActiveCount ==
    /\ activeSensors = ActiveCount(fsrData)
    /\ pc = "forTest" /\ i = 0 => activeSensors = 0
    /\ pc \in ExternalPcs => Len(fsrData) = NumChannels

C4_Witness ==
    /\ pc = "mpuRead" /\ iter = 2 /\ activeSensors = 2
    /\ \E k \in 1..Len(fsrData) : fsrData[k].val = PRESSURE_THRESHOLD

\* C5: after the LED update of an iteration the LEDs show ALERT (GREEN_LED
\* HIGH, RED_LED LOW) iff activeSensors > 4 and NORMAL (GREEN_LED LOW,
\* RED_LED HIGH) otherwise.
C5_Decide ==
    pc = "loopDelay" =>
        /\ (green = "HIGH" /\ red = "LOW") <=> activeSensors > 4
        /\ (green = "LOW" /\ red = "HIGH") <=> activeSensors <= 4

C5_Witness ==
    pc = "loopDelay" /\ iter = 2 /\ activeSensors = 5 /\ green = "HIGH"

\* C6: a sweep samples channels 0, 1, ..., 11 once each in ascending order,
\* and field fsr<k> of the reading holds the level of channel k.
C6_SweepOrder ==
    /\ sampled = Ascending(Len(sampled))
    /\ Len(fsrData) = Len(sampled)
    /\ \A k \in 1..Len(fsrData) :
          /\ fsrData[k].key = k - 1
          /\ fsrData[k].val = AnalogLevel(pressed, k - 1)
    /\ pc \in ExternalPcs \cup {"ledGreen", "ledRed", "loopDelay"} =>
          Len(sampled) = 12

C6_Witness == pc = "mpuRead" /\ Len(fsrData) = 12 /\ pressed = {0, 2, 5, 11}

\* C7: inside loop(), every MPU6050/DHT22 read, uplink and WiFi
\* reconnection step happens after all 12 channels were sampled, and a
\* select-line write or a sample happens only inside the sweep, before any
\* external step of that iteration.
C7_Inv ==
    /\ (pc \in ExternalPcs \/ (pc \in WifiPcs /\ caller = "send")) =>
          i = 12 /\ Len(fsrData) = 12 /\ Len(sampled) = 12
    /\ pc \in SweepPcs => log = <<>> /\ postData = <<>> /\ gets = 0

C7_Step ==
    (sel' # sel \/ Len(sampled') > Len(sampled)) =>
        pc \in SweepPcs /\ log = <<>> /\ mpuEvent = "none"

C7_NoInterleaving == []C7_Inv /\ [][C7_Step]_vars

C7_Witness ==
    pc = "wifiWhile" /\ caller = "send" /\ attempts = 3 /\ Len(fsrData) = 12

\* C8: after selectMuxChannel(c), c in 0..15, lines S0..S3 hold bits 0..3
\* of c whatever they held before; c = 9 gives HIGH, LOW, LOW, HIGH.
C8_SelectBits ==
    pc = "settle" =>
        /\ MuxChannel(sel) = channel
        /\ \A b \in Lines :
              sel[b] = "HIGH" <=> (channel \div Pow2(b)) % 2 = 1
        /\ channel = 9 =>
              sel = [b \in Lines |-> IF b \in {0, 3} THEN "HIGH" ELSE "LOW"]

C8_Witness ==
    pc = "settle" /\ channel = 9 /\ sel[0] = "HIGH" /\ sel[3] = "HIGH"

\* C9: an iteration issues at most one GET, carrying the reading built in
\* that iteration; when WiFi is down at the call of sendDataToGoogleSheets
\* no GET is issued, and nothing of a reading survives into the next
\* iteration.
C9_NoBuffering ==
    /\ gets <= 1
    /\ gets = 1 =>
          /\ sendStatus = "WL_CONNECTED"
          /\ getData = postData
          /\ postData = <<Serialize(fsrData, activeSensors, mpuEvent,
                                    humidity, dhtTemp)>>
    /\ sendStatus = "WL_DISCONNECTED" => gets = 0 /\ getData = <<>>
    /\ gets = 0 => getData = <<>>
    /\ pc \in SweepPcs \cup {"loop", "mpuRead", "dhtRead", "build"} =>
          postData = <<>> /\ getData = <<>> /\ gets = 0

C9_Witness ==
    /\ pc = "loopDelay" /\ sendStatus = "WL_DISCONNECTED"
    /\ wlStatus = "WL_CONNECTED" /\ gets = 0

\* C10: connectToWiFi never lets attempts exceed 20, and every iteration
\* that starts reaches its LED update and then ends.
Started(n) == iter = n /\ pc = "forTest"
LedUpdated(n) == iter = n /\ pc = "loopDelay"
Ended(n) == iter = n /\ pc = "loop"

C10_IterationEnds ==
    /\ [](attempts <= 20)
    /\ \A n \in 1..MaxIter :
          /\ Started(n) ~> LedUpdated(n)
          /\ LedUpdated(n) ~> Ended(n)

C10_Witness ==
    pc = "wifiWhile" /\ caller = "send" /\ attempts = 20
    /\ wlStatus = "WL_DISCONNECTED"

====
